---------------------------- MODULE Spec2Model ----------------------------
(***************************************************************************)
(* A model of the OpenMic aggregation pipeline:                            *)
(*   musicmap/aggregator.py  OpenMicAggregator.search, _deduplicate        *)
(*   musicmap/geo.py         haversine_distance, CITY_COORDS,              *)
(*                           get_city_coords, estimate_coords_from_address,*)
(*                           filter_by_distance                            *)
(*   musicmap/models/event.py  OpenMicEvent                                *)
(*   musicmap/scrapers/*.py  the records the two adapters can build        *)
(*                                                                         *)
(* Python values are tagged records: None, a string (a sequence of         *)
(* one-character strings, so that lower(), strip(), title() and the        *)
(* address pattern are computed character by character), a number.         *)
(* Latitudes and longitudes are integers in units of 1e-4 degree,          *)
(* distances and radii are integers in units of 1e-3 mile.                 *)
(* OpenMicEvent objects live in a heap (a sequence indexed by object id);   *)
(* Python lists of events are sequences of object ids, so that in-place    *)
(* mutation of an event is seen through every list that holds it.          *)
(***************************************************************************)
EXTENDS Integers, Sequences, FiniteSets, TLC

VARIABLES
    pc,            \* position of the running operation
    cities,        \* search(cities=...): the list of city_info dicts
    max_distance,  \* search(max_distance=...) after the default of line 62
    location,      \* search(location=...): None or (city, state, lat, lon)
    home_lat,      \* local of search, lines 65-71
    home_lon,      \* local of search, lines 65-71
    ci,            \* index of the city_info the outer loop is at
    si,            \* index of the scraper the inner loop is at
    heap,          \* the OpenMicEvent objects created so far, by object id
    all_events,    \* local of search: the working list (object ids)
    created,       \* the objects as they were when their adapter built them
    calls,         \* log of the scrape calls made: who, for what, outcome
    ret            \* what the operation returned (None until it returns)

vars == <<pc, cities, max_distance, location, home_lat, home_lon, ci, si,
          heap, all_events, created, calls, ret>>

---------------------------------------------------------------------------
(* Python values *)

None == [t |-> "None"]
Str(s) == [t |-> "str", s |-> s]
Num(n) == [t |-> "num", n |-> n]

\* bool(v) for the values of the model: None, "" and 0 are false.
Truthy(v) ==
    CASE v.t = "None" -> FALSE
      [] v.t = "str"  -> Len(v.s) > 0
      [] v.t = "num"  -> v.n # 0

UPPER == <<"A","B","C","D","E","F","G","H","I","J","K","L","M",
           "N","O","P","Q","R","S","T","U","V","W","X","Y","Z">>
LOWER == <<"a","b","c","d","e","f","g","h","i","j","k","l","m",
           "n","o","p","q","r","s","t","u","v","w","x","y","z">>
DIGITS == {"0","1","2","3","4","5","6","7","8","9"}
WHITESPACE == {" ", "\t", "\n"}

IsUpper(c) == \E i \in 1..26 : UPPER[i] = c
IsLower(c) == \E i \in 1..26 : LOWER[i] = c
IsDigit(c) == c \in DIGITS
IsAlpha(c) == IsUpper(c) \/ IsLower(c)
IsSpace(c) == c \in WHITESPACE

UpperSet == {UPPER[i] : i \in 1..26}
LowerSet == {LOWER[i] : i \in 1..26}
LowerOf == [c \in UpperSet |-> LOWER[CHOOSE i \in 1..26 : UPPER[i] = c]]
UpperOf == [c \in LowerSet |-> UPPER[CHOOSE i \in 1..26 : LOWER[i] = c]]
LowerChar(c) == IF c \in UpperSet THEN LowerOf[c] ELSE c
UpperChar(c) == IF c \in LowerSet THEN UpperOf[c] ELSE c

\* str.lower() on a sequence of characters
lower(s) == [i \in 1..Len(s) |-> LowerChar(s[i])]

\* str.strip(): drop the leading and the trailing whitespace
strip(s) ==
    LET nonsp == {i \in 1..Len(s) : ~IsSpace(s[i])}
    IN  IF nonsp = {} THEN <<>>
        ELSE LET lo == CHOOSE i \in nonsp : \A j \in nonsp : i <= j
                 hi == CHOOSE i \in nonsp : \A j \in nonsp : j <= i
             IN  SubSeq(s, lo, hi)

\* str.title(): a letter that follows a non-letter is upper-cased, any
\* other letter is lower-cased
title(s) ==
    [i \in 1..Len(s) |->
        IF i = 1 \/ ~IsAlpha(s[i-1]) THEN UpperChar(s[i]) ELSE LowerChar(s[i])]

---------------------------------------------------------------------------
(* OpenMicEvent: the fields the pipeline reads or writes.  time, genre,    *)
(* details, event_date and event_name are carried by no operation of the   *)
(* pipeline and are left out.                                              *)

OpenMicEvent(venue_name, city, state, source, address, day_of_week, phone, url, lat, lon) ==
    [venue_name |-> venue_name, city |-> city, state |-> state,
     source |-> source, address |-> address, day_of_week |-> day_of_week,
     phone |-> phone, url |-> url, lat |-> lat, lon |-> lon,
     distance_miles |-> None]

\* Some coordinates of the inputs, (lat, lon) in 1e-4 degree: two cities of
\* the table, a point half a mile from Bainbridge, a point on the equator
P_Bainbridge == <<309038, -845755>>
P_Albany     == <<315785, -841557>>
P_Near       == <<309100, -845700>>
P_ZeroLat    == <<0, -845755>>

\* Some strings of the inputs
S_Bar     == <<"B","a","r">>
S_bAR     == <<" ","b","A","R"," ">>
S_Pub     == <<"P","u","b">>
S_Friday  == <<"F","r","i","d","a","y">>
S_Monday  == <<"M","o","n","d","a","y">>
S_Austin  == <<"A","u","s","t","i","n">>
S_austin  == <<"a","u","s","t","i","n"," ">>
S_Albany  == <<"A","l","b","a","n","y">>
S_Rome    == <<"R","o","m","e">>
S_TX      == <<"T","X">>
S_GA      == <<"G","A">>
S_openmic_us == <<"o","p","e","n","m","i","c",".","u","s">>
S_eventbrite == <<"e","v","e","n","t","b","r","i","t","e">>
S_Phone1  == <<"5","5","5","-","0","1","0","0">>
S_Url1    == <<"/","e","/","1">>
S_Addr1   == <<"1"," ","A"," ","S","t">>
S_AddrAlbany == <<"1"," ","A"," ","S","t",","," ","A","l","b","a","n","y",",",
                  " ","G","A"," ","3","1","7","0","1">>
S_AddrRome   == <<"R","o","m","e",","," ","G","A">>
S_ALBANY  == <<" ","A","L","B","A","N","Y">>
S_ga      == <<"g","a">>
S_Lat     == <<"3","0",".","9","1">>
S_Lon     == <<"-","8","4",".","5","7">>
S_Home    == <<"h","o","m","e">>
S_Addr2   == <<"9"," ","B"," ","R","d">>

---------------------------------------------------------------------------
(* aggregator.py, _deduplicate *)

\* An operation either returns a value or raises.
Returned(v) == [raised |-> FALSE, value |-> v]
Raised == [raised |-> TRUE, value |-> None]

\* lines 115-119: the key of one event.  venue_name.lower() and
\* city.lower() raise AttributeError on a value that is not a string.
KeyRaises(e) == e.venue_name.t # "str" \/ e.city.t # "str"

DedupKeyNoCityStrip(e) ==
    <<strip(lower(e.venue_name.s)),
      IF Truthy(e.day_of_week) THEN e.day_of_week ELSE Str(<<>>),
      lower(e.city.s)>>

DedupKey(e) ==
    <<strip(lower(e.venue_name.s)),
      IF Truthy(e.day_of_week) THEN e.day_of_week ELSE Str(<<>>),
      strip(lower(e.city.s))>>

\* lines 113-123: the loop, from position i on, with the keys seen and the
\* list built so far.
RECURSIVE DedupLoop(_, _, _, _, _)
DedupLoop(h, events, i, seen, unique) ==
    IF i > Len(events) THEN Returned(unique)
    ELSE LET event == h[events[i]]
         IN  IF KeyRaises(event) THEN Raised
             ELSE LET key == DedupKey(event)
                  IN  IF key \notin seen
                      THEN DedupLoop(h, events, i + 1, seen \cup {key},
                                     Append(unique, events[i]))
                      ELSE DedupLoop(h, events, i + 1, seen, unique)

RECURSIVE DedupLoopKeepLast(_, _, _, _, _)
DedupLoopKeepLast(h, events, i, seen, unique) ==
    IF i < 1 THEN Returned(unique)
    ELSE LET event == h[events[i]]
         IN  IF KeyRaises(event) THEN Raised
             ELSE LET key == DedupKey(event)
                  IN  IF key \notin seen
                      THEN DedupLoopKeepLast(h, events, i - 1, seen \cup {key},
                                             <<events[i]>> \o unique)
                      ELSE DedupLoopKeepLast(h, events, i - 1, seen, unique)

\* a _deduplicate that keeps the last record of each key instead of the first
DeduplicateKeepLast(h, events) == DedupLoopKeepLast(h, events, Len(events), {}, <<>>)

RECURSIVE DedupLoopPrepend(_, _, _, _, _)
DedupLoopPrepend(h, events, i, seen, unique) ==
    IF i > Len(events) THEN Returned(unique)
    ELSE IF KeyRaises(h[events[i]]) THEN Raised
    ELSE IF DedupKey(h[events[i]]) \notin seen
    THEN DedupLoopPrepend(h, events, i + 1, seen \cup {DedupKey(h[events[i]])},
                          <<events[i]>> \o unique)
    ELSE DedupLoopPrepend(h, events, i + 1, seen, unique)

\* a _deduplicate that puts each new record in front of the list it builds
DeduplicatePrepend(h, events) == DedupLoopPrepend(h, events, 1, {}, <<>>)

\* a _deduplicate that keeps, of the records of a key, the first one that
\* carries lat/lon when there is one, else the first
PreferredOfKey(h, events, i) ==
    IF \E j \in 1..Len(events) :
          DedupKey(h[events[j]]) = DedupKey(h[events[i]]) /\ h[events[j]].lat # None
    THEN /\ h[events[i]].lat # None
         /\ \A j \in 1..(i - 1) :
               DedupKey(h[events[j]]) = DedupKey(h[events[i]]) => h[events[j]].lat = None
    ELSE \A j \in 1..(i - 1) : DedupKey(h[events[j]]) # DedupKey(h[events[i]])

RECURSIVE PreferredFrom(_, _, _)
PreferredFrom(h, events, i) ==
    IF i > Len(events) THEN <<>>
    ELSE IF PreferredOfKey(h, events, i)
    THEN <<events[i]>> \o PreferredFrom(h, events, i + 1)
    ELSE PreferredFrom(h, events, i + 1)

DeduplicatePreferLocated(h, events) ==
    IF \E i \in 1..Len(events) : KeyRaises(h[events[i]]) THEN Raised
    ELSE Returned(PreferredFrom(h, events, 1))

\* lines 108-125
Deduplicate(h, events) == DedupLoop(h, events, 1, {}, <<>>)

---------------------------------------------------------------------------
(* geo.py *)

\* lines 31-57: the known cities, the items ((city, state), (lat, lon)) of
\* the dict, lat and lon in 1e-4 degree
CITY_COORDS_ITEMS ==
    {
     <<<<<<"b","a","i","n","b","r","i","d","g","e">>, <<"g","a">>>>, <<309038, -845755>>>>,
     <<<<<<"a","l","b","a","n","y">>, <<"g","a">>>>, <<315785, -841557>>>>,
     <<<<<<"a","t","l","a","n","t","a">>, <<"g","a">>>>, <<337490, -843880>>>>,
     <<<<<<"s","a","v","a","n","n","a","h">>, <<"g","a">>>>, <<320809, -810912>>>>,
     <<<<<<"v","a","l","d","o","s","t","a">>, <<"g","a">>>>, <<308327, -832785>>>>,
     <<<<<<"t","h","o","m","a","s","v","i","l","l","e">>, <<"g","a">>>>, <<308366, -839788>>>>,
     <<<<<<"t","a","l","l","a","h","a","s","s","e","e">>, <<"f","l">>>>, <<304383, -842807>>>>,
     <<<<<<"p","a","n","a","m","a"," ","c","i","t","y">>, <<"f","l">>>>, <<301588, -856602>>>>,
     <<<<<<"j","a","c","k","s","o","n","v","i","l","l","e">>, <<"f","l">>>>, <<303322, -816557>>>>,
     <<<<<<"g","a","i","n","e","s","v","i","l","l","e">>, <<"f","l">>>>, <<296516, -823248>>>>,
     <<<<<<"p","e","n","s","a","c","o","l","a">>, <<"f","l">>>>, <<304213, -872169>>>>,
     <<<<<<"d","e","s","t","i","n">>, <<"f","l">>>>, <<303935, -864958>>>>,
     <<<<<<"d","o","t","h","a","n">>, <<"a","l">>>>, <<312232, -853905>>>>,
     <<<<<<"m","o","n","t","g","o","m","e","r","y">>, <<"a","l">>>>, <<323792, -863077>>>>,
     <<<<<<"m","o","b","i","l","e">>, <<"a","l">>>>, <<306954, -880399>>>>,
     <<<<<<"a","u","s","t","i","n">>, <<"t","x">>>>, <<302672, -977431>>>>,
     <<<<<<"h","o","u","s","t","o","n">>, <<"t","x">>>>, <<297604, -953698>>>>,
     <<<<<<"d","a","l","l","a","s">>, <<"t","x">>>>, <<327767, -967970>>>>
    }

CITY_COORDS ==
    [key \in {item[1] : item \in CITY_COORDS_ITEMS} |->
        (CHOOSE item \in CITY_COORDS_ITEMS : item[1] = key)[2]]

\* lines 11-27: haversine_distance, tabulated.  The values are the ones the
\* function returns for the coordinates that occur in the inputs below
\* (Bainbridge GA, Albany GA, Austin TX, a point half a mile from Bainbridge,
\* and the point of Bainbridge's longitude on the equator), in 1e-3 mile:
\* ((lat1, lon1, lat2, lon2), distance).
HAVERSINE_ITEMS ==
    {
     <<<<309038, -845755, 309038, -845755>>, 0>>,   \* Bainbridge -> Bainbridge: 0.000000
     <<<<309038, -845755, 315785, -841557>>, 52806>>,   \* Bainbridge -> Albany: 52.806308
     <<<<309038, -845755, 302672, -977431>>, 784041>>,   \* Bainbridge -> Austin: 784.041460
     <<<<309038, -845755, 309100, -845700>>, 538>>,   \* Bainbridge -> Near: 0.538381
     <<<<309038, -845755, 0, -845755>>, 2135378>>,   \* Bainbridge -> ZeroLat: 2135.377950
     <<<<315785, -841557, 309038, -845755>>, 52806>>,   \* Albany -> Bainbridge: 52.806308
     <<<<315785, -841557, 315785, -841557>>, 0>>,   \* Albany -> Albany: 0.000000
     <<<<315785, -841557, 302672, -977431>>, 809955>>,   \* Albany -> Austin: 809.954564
     <<<<315785, -841557, 309100, -845700>>, 52275>>,   \* Albany -> Near: 52.275186
     <<<<315785, -841557, 0, -845755>>, 2182171>>,   \* Albany -> ZeroLat: 2182.170962
     <<<<302672, -977431, 309038, -845755>>, 784041>>,   \* Austin -> Bainbridge: 784.041460
     <<<<302672, -977431, 315785, -841557>>, 809955>>,   \* Austin -> Albany: 809.954564
     <<<<302672, -977431, 302672, -977431>>, 0>>,   \* Austin -> Austin: 0.000000
     <<<<302672, -977431, 309100, -845700>>, 784366>>,   \* Austin -> Near: 784.366435
     <<<<302672, -977431, 0, -845755>>, 2263406>>,   \* Austin -> ZeroLat: 2263.405973
     <<<<309100, -845700, 309038, -845755>>, 538>>,   \* Near -> Bainbridge: 0.538381
     <<<<309100, -845700, 315785, -841557>>, 52275>>,   \* Near -> Albany: 52.275186
     <<<<309100, -845700, 302672, -977431>>, 784366>>,   \* Near -> Austin: 784.366435
     <<<<309100, -845700, 309100, -845700>>, 0>>,   \* Near -> Near: 0.000000
     <<<<309100, -845700, 0, -845755>>, 2135806>>,   \* Near -> ZeroLat: 2135.806385
     <<<<0, -845755, 309038, -845755>>, 2135378>>,   \* ZeroLat -> Bainbridge: 2135.377950
     <<<<0, -845755, 315785, -841557>>, 2182171>>,   \* ZeroLat -> Albany: 2182.170962
     <<<<0, -845755, 302672, -977431>>, 2263406>>,   \* ZeroLat -> Austin: 2263.405973
     <<<<0, -845755, 309100, -845700>>, 2135806>>,   \* ZeroLat -> Near: 2135.806385
     <<<<0, -845755, 0, -845755>>, 0>>   \* ZeroLat -> ZeroLat: 0.000000
    }

HAVERSINE ==
    [args \in {item[1] : item \in HAVERSINE_ITEMS} |->
        (CHOOSE item \in HAVERSINE_ITEMS : item[1] = args)[2]]

\* math.radians raises TypeError on a value that is not a number
HaversineRaises(lat1, lon1, lat2, lon2) ==
    lat1.t # "num" \/ lon1.t # "num" \/ lat2.t # "num" \/ lon2.t # "num"

\* the values of a haversine_distance whose line 24 takes the cosine of
\* lat1 twice instead of those of lat1 and lat2
HAVERSINE_COS_LAT1_ITEMS ==
    {
     <<<<309038, -845755, 309038, -845755>>, 0>>,
     <<<<309038, -845755, 315785, -841557>>, 52848>>,
     <<<<309038, -845755, 302672, -977431>>, 781471>>,
     <<<<309038, -845755, 309100, -845700>>, 538>>,
     <<<<309038, -845755, 0, -845755>>, 2135378>>,
     <<<<315785, -841557, 309038, -845755>>, 52765>>,
     <<<<315785, -841557, 315785, -841557>>, 0>>,
     <<<<315785, -841557, 302672, -977431>>, 804472>>,
     <<<<315785, -841557, 309100, -845700>>, 52235>>,
     <<<<315785, -841557, 0, -845755>>, 2182145>>,
     <<<<302672, -977431, 309038, -845755>>, 786621>>,
     <<<<302672, -977431, 315785, -841557>>, 815476>>,
     <<<<302672, -977431, 302672, -977431>>, 0>>,
     <<<<302672, -977431, 309100, -845700>>, 786972>>,
     <<<<302672, -977431, 0, -845755>>, 2240655>>,
     <<<<309100, -845700, 309038, -845755>>, 538>>,
     <<<<309100, -845700, 315785, -841557>>, 52316>>,
     <<<<309100, -845700, 302672, -977431>>, 781770>>,
     <<<<309100, -845700, 309100, -845700>>, 0>>,
     <<<<309100, -845700, 0, -845755>>, 2135806>>,
     <<<<0, -845755, 309038, -845755>>, 2135378>>,
     <<<<0, -845755, 315785, -841557>>, 2182201>>,
     <<<<0, -845755, 302672, -977431>>, 2289497>>,
     <<<<0, -845755, 309100, -845700>>, 2135806>>,
     <<<<0, -845755, 0, -845755>>, 0>>
    }

haversine_cos_lat1(lat1, lon1, lat2, lon2) ==
    (CHOOSE item \in HAVERSINE_COS_LAT1_ITEMS :
        item[1] = <<lat1.n, lon1.n, lat2.n, lon2.n>>)[2]

haversine_distance(lat1, lon1, lat2, lon2) ==
    HAVERSINE[<<lat1.n, lon1.n, lat2.n, lon2.n>>]

\* round(distance, 1) of a distance in 1e-3 mile: the nearest tenth of a
\* mile, a tie going to the even tenth
round1(d) ==
    LET q == d \div 100
        r == d % 100
    IN  IF r < 50 THEN q * 100
        ELSE IF r > 50 THEN (q + 1) * 100
        ELSE IF q % 2 = 0 THEN q * 100 ELSE (q + 1) * 100

\* a pair (lat, lon) as get_city_coords returns it
Coords(pair) == [t |-> "tuple", lat |-> Num(pair[1]), lon |-> Num(pair[2])]

\* line 63: CITY_COORDS.get(key)
CityCoordsGet(key) ==
    IF key \in DOMAIN CITY_COORDS THEN Coords(CITY_COORDS[key]) ELSE None

\* a lookup with the strings as given, neither lowercased nor stripped
get_city_coords_exact(city, state) == CityCoordsGet(<<city.s, state.s>>)

\* lines 60-63
get_city_coords(city, state) ==
    CityCoordsGet(<<strip(lower(city.s)), strip(lower(state.s))>>)

\* line 75: re.search(r'([A-Za-z\s]+),\s*([A-Z]{2})\s*\d*', address).
\* A match that starts at i takes the whole run of letters and blanks from
\* i (a shorter run is not followed by a comma), then the comma, then the
\* blanks, then two capitals.
InCityClass(c) == IsAlpha(c) \/ IsSpace(c)

\* the last position of the run of class characters that starts at i
RECURSIVE RunEnd(_, _)
RunEnd(s, i) ==
    IF i < Len(s) /\ InCityClass(s[i + 1]) THEN RunEnd(s, i + 1) ELSE i

\* the first position at or after i that holds no blank
RECURSIVE SkipSpace(_, _)
SkipSpace(s, i) ==
    IF i <= Len(s) /\ IsSpace(s[i]) THEN SkipSpace(s, i + 1) ELSE i

\* ([A-Z]{2}) at k
TwoCapitalsAt(s, k) == k + 1 <= Len(s) /\ IsUpper(s[k]) /\ IsUpper(s[k + 1])

\* ,\s*([A-Z]{2}) after a run that ends at j
CommaStateAfter(s, j) ==
    j + 1 <= Len(s) /\ s[j + 1] = "," /\ TwoCapitalsAt(s, SkipSpace(s, j + 2))

MatchesAt(s, i) == InCityClass(s[i]) /\ CommaStateAfter(s, RunEnd(s, i))

\* lines 77-79: the groups of the match whose city is s[i..j] and whose
\* state starts at k
LookupGroups(s, i, j, k) ==
    get_city_coords(Str(strip(SubSeq(s, i, j))), Str(strip(SubSeq(s, k, k + 1))))

LookupMatch(s, i, j) == LookupGroups(s, i, j, SkipSpace(s, j + 2))

\* re.search: the leftmost match, from position i on
RECURSIVE SearchFrom(_, _)
SearchFrom(s, i) ==
    IF i > Len(s) THEN None
    ELSE IF MatchesAt(s, i) THEN LookupMatch(s, i, RunEnd(s, i))
    ELSE SearchFrom(s, i + 1)

\* lines 66-81
estimate_coords_from_address(address) ==
    IF ~Truthy(address) THEN None ELSE SearchFrom(address.s, 1)

\* lines 107-115: the coordinates found in the table, or none
TableCoords(event, coords) ==
    IF coords # None
    THEN [how |-> "table", lat |-> coords.lat, lon |-> coords.lon]
    ELSE [how |-> "none", lat |-> event.lat, lon |-> event.lon]

\* lines 103-106 with the two lookups in the other order
CityLookupAddressFirst(event, coords) ==
    IF coords # None THEN coords ELSE get_city_coords(event.city, event.state)

\* the first rule, then the address before the city table
ResolveCoordsAddressFirst(event) ==
    IF Truthy(event.lat) /\ Truthy(event.lon)
    THEN [how |-> "own", lat |-> event.lat, lon |-> event.lon]
    ELSE TableCoords(event,
            CityLookupAddressFirst(event,
                estimate_coords_from_address(event.address)))

\* lines 104-106: if not coords: coords = estimate_coords_from_address(...)
AddressIfNot(event, coords) ==
    IF coords # None THEN coords ELSE estimate_coords_from_address(event.address)

\* lines 99-115: where the coordinates of an event come from
ResolveCoords(event) ==
    IF Truthy(event.lat) /\ Truthy(event.lon)
    THEN [how |-> "own", lat |-> event.lat, lon |-> event.lon]
    ELSE TableCoords(event,
            AddressIfNot(event, get_city_coords(event.city, event.state)))

KeptStrictlyInside(distance, max_miles) ==
    IF distance = None THEN TRUE ELSE distance.n < max_miles.n

KeptFromRadiusOn(distance, max_miles) ==
    IF distance = None THEN TRUE ELSE distance.n >= max_miles.n

KeptWhateverDistance(distance, max_miles) == TRUE

KeptOnlyIfKnown(distance, max_miles) ==
    IF distance = None THEN FALSE ELSE distance.n <= max_miles.n

\* lines 112-114 and 121-122: whether an event goes into the filtered list,
\* from its distance (None: the location could not be determined)
Kept(distance, max_miles) ==
    IF distance = None THEN TRUE ELSE distance.n <= max_miles.n

\* lines 114 and 122: filtered.append(event), or not
AppendIfKept(filtered, id, distance, max_miles) ==
    IF Kept(distance, max_miles) THEN Append(filtered, id) ELSE filtered

\* lines 109-110: event.lat = lat; event.lon = lon (the event's own values
\* when it carried them)
SetCoords(h, id, res) == [h EXCEPT ![id].lat = res.lat, ![id].lon = res.lon]

\* lines 113 and 119: event.distance_miles = ...
SetDistance(h, id, d) == [h EXCEPT ![id].distance_miles = d]

\* lines 97-122: the loop, from position i on.  Events are updated in
\* place, so the heap as the loop leaves it is part of the outcome, also
\* when haversine_distance raises.
RECURSIVE FilterLoop(_, _, _, _, _, _, _)
RECURSIVE VisitEvent(_, _, _, _, _, _, _, _)
RECURSIVE MeasureEvent(_, _, _, _, _, _, _, _)

\* lines 118-122, with the distance computed
MeasureEvent(h, events, i, lat0, lon0, max_miles, filtered, distance) ==
    FilterLoop(SetDistance(h, events[i], Num(round1(distance.n))), events, i + 1,
               lat0, lon0, max_miles,
               AppendIfKept(filtered, events[i], distance, max_miles))

\* lines 99-122, with the coordinates resolved
VisitEvent(h, events, i, lat0, lon0, max_miles, filtered, res) ==
    IF res.how = "none"
    THEN FilterLoop(SetDistance(h, events[i], None), events, i + 1,
                    lat0, lon0, max_miles,
                    AppendIfKept(filtered, events[i], None, max_miles))
    ELSE IF HaversineRaises(lat0, lon0, res.lat, res.lon)
    THEN [raised |-> TRUE, heap |-> SetCoords(h, events[i], res), value |-> None]
    ELSE MeasureEvent(SetCoords(h, events[i], res), events, i, lat0, lon0,
                      max_miles, filtered,
                      Num(haversine_distance(lat0, lon0, res.lat, res.lon)))

FilterLoop(h, events, i, lat0, lon0, max_miles, filtered) ==
    IF i > Len(events) THEN [raised |-> FALSE, heap |-> h, value |-> filtered]
    ELSE VisitEvent(h, events, i, lat0, lon0, max_miles, filtered,
                    ResolveCoords(h[events[i]]))

\* line 125: the sort key; float('inf') for an unknown distance
SortKey(event) ==
    IF event.distance_miles # None
    THEN [inf |-> FALSE, n |-> event.distance_miles.n]
    ELSE [inf |-> TRUE, n |-> 0]

KeyLess(a, b) == IF a.inf THEN FALSE ELSE (b.inf \/ a.n < b.n)

InsertAt(sorted, id, n) ==
    SubSeq(sorted, 1, n) \o <<id>> \o SubSeq(sorted, n + 1, Len(sorted))

\* an insertion that puts the new element before the elements of equal key
InsertBeforeEqual(h, sorted, id) ==
    InsertAt(sorted, id,
             Cardinality({k \in 1..Len(sorted) :
                             KeyLess(SortKey(h[sorted[k]]), SortKey(h[id]))}))

\* list.sort is stable: the new element goes after every element whose
\* key is not greater
InsertSorted(h, sorted, id) ==
    InsertAt(sorted, id,
             Cardinality({k \in 1..Len(sorted) :
                             ~KeyLess(SortKey(h[id]), SortKey(h[sorted[k]]))}))

\* line 125: filtered.sort(key=...)
RECURSIVE SortFrom(_, _, _, _)
SortFrom(h, list, i, sorted) ==
    IF i > Len(list) THEN sorted
    ELSE SortFrom(h, list, i + 1, InsertSorted(h, sorted, list[i]))

StableSort(h, list) == SortFrom(h, list, 1, <<>>)

\* lines 124-127: the filtered list sorted, unless the loop raised
SortFiltered(r) ==
    IF r.raised THEN r
    ELSE [raised |-> FALSE, heap |-> r.heap, value |-> StableSort(r.heap, r.value)]

\* lines 84-127
filter_by_distance(h, events, lat0, lon0, max_miles) ==
    SortFiltered(FilterLoop(h, events, 1, lat0, lon0, max_miles, <<>>))

---------------------------------------------------------------------------
(* Bounds *)

MaxDedupEvents == 3
MaxGeoEvents == 2
MaxCities == 2
MaxPerScrape == 2

---------------------------------------------------------------------------
(* _deduplicate as an operation of its own: any list of records an adapter  *)
(* can build (venue_name and city are strings).                            *)

\* (venue_name, city): spellings of one venue in one city that differ in
\* case and surrounding blanks, another venue there, the venue elsewhere
DedupPlaces ==
    {<<Str(S_Bar), Str(S_Austin)>>, <<Str(S_bAR), Str(S_austin)>>,
     <<Str(S_bAR), Str(S_Austin)>>, <<Str(S_Pub), Str(S_Austin)>>,
     <<Str(S_Pub), Str(S_austin)>>, <<Str(S_Bar), Str(S_Albany)>>}
DedupDays   == {None, Str(S_Friday)}
\* everything the key does not read, in two variants that differ everywhere
DedupRest ==
    {[state |-> Str(S_TX), source |-> Str(S_openmic_us), address |-> Str(S_Addr1),
      phone |-> Str(S_Phone1), url |-> None, lat |-> None, lon |-> None],
     [state |-> Str(<<>>), source |-> Str(S_eventbrite), address |-> Str(S_Addr2),
      phone |-> None, url |-> Str(S_Url1), lat |-> Num(302672), lon |-> Num(-977431)]}

DedupPool ==
    {OpenMicEvent(p[1], p[2], r.state, r.source, r.address, d, r.phone, r.url,
                  r.lat, r.lon) :
        p \in DedupPlaces, d \in DedupDays, r \in DedupRest}

Ids(n) == [i \in 1..n |-> i]

InitDedup ==
    /\ pc = "dedup_call"
    /\ \E n \in 0..MaxDedupEvents :
          /\ heap \in [1..n -> DedupPool]
          /\ all_events = Ids(n)
    /\ created = heap
    /\ cities = <<>>
    /\ max_distance = None
    /\ location = None
    /\ home_lat = None
    /\ home_lon = None
    /\ ci = 0
    /\ si = 0
    /\ calls = <<>>
    /\ ret = None

\* unique = self._deduplicate(events)
DedupOutcome(r) ==
    /\ ret' = r
    /\ pc' = IF r.raised THEN "dedup_raised" ELSE "dedup_returned"

\* a _deduplicate that fills the missing lat/lon of a record from a later
\* record of the same key
MergedCoords(h, events, i) ==
    IF h[events[i]].lat = None
          /\ \E j \in (i + 1)..Len(events) :
                 /\ DedupKey(h[events[j]]) = DedupKey(h[events[i]])
                 /\ h[events[j]].lat # None
    THEN LET j == CHOOSE j \in (i + 1)..Len(events) :
                     /\ DedupKey(h[events[j]]) = DedupKey(h[events[i]])
                     /\ h[events[j]].lat # None
         IN  [h[events[i]] EXCEPT !.lat = h[events[j]].lat,
                                  !.lon = h[events[j]].lon]
    ELSE h[events[i]]

CallDeduplicateMerging ==
    /\ pc = "dedup_call"
    /\ DedupOutcome(Deduplicate(heap, all_events))
    /\ heap' = [id \in 1..Len(heap) |-> MergedCoords(heap, all_events, id)]
    /\ UNCHANGED <<cities, max_distance, location, home_lat, home_lon, ci, si,
                   all_events, created, calls>>

CallDeduplicate ==
    /\ pc = "dedup_call"
    /\ DedupOutcome(Deduplicate(heap, all_events))
    /\ UNCHANGED <<cities, max_distance, location, home_lat, home_lon, ci, si,
                   heap, all_events, created, calls>>

\* again = self._deduplicate(unique): _deduplicate applied to the list it
\* returned
CallDeduplicateAgain ==
    /\ pc = "dedup_returned"
    /\ all_events' = ret.value
    /\ ret' = Deduplicate(heap, ret.value)
    /\ pc' = "dedup_again"
    /\ UNCHANGED <<cities, max_distance, location, home_lat, home_lon, ci, si,
                   heap, created, calls>>

NextDedup ==
    \/ CallDeduplicate
    \/ CallDeduplicateAgain

SpecDedup == InitDedup /\ [][NextDedup]_vars

---------------------------------------------------------------------------
(* filter_by_distance as an operation of its own: any list of records      *)
(* whose lat and lon are None or numbers, any reference point, any radius. *)

\* (lat, lon) as an adapter left them: none, a point, a point on the equator
GeoOwnCoords == {<<None, None>>,
                 <<Num(P_Near[1]), Num(P_Near[2])>>,
                 <<Num(P_ZeroLat[1]), Num(P_ZeroLat[2])>>}
\* (city, state): in the table as spelled, in the table up to case and
\* blanks, not in the table
GeoPlaces == {<<Str(S_Austin), Str(S_TX)>>, <<Str(S_ALBANY), Str(S_ga)>>,
              <<Str(S_Rome), Str(S_GA)>>}
\* address: none, one that names a known city, one that names an unknown one
GeoAddresses == {None, Str(S_AddrAlbany), Str(S_AddrRome)}

GeoPool ==
    {OpenMicEvent(Str(S_Bar), p[1], p[2], Str(S_eventbrite), a, None, None,
                  None, c[1], c[2]) :
        c \in GeoOwnCoords, p \in GeoPlaces, a \in GeoAddresses}

\* reference points: two cities of the table and a point on the equator
GeoHomes == {P_Bainbridge, P_Albany, P_ZeroLat}
\* radii in 1e-3 mile: 0, 52.29, 52.8 and 100 miles
GeoRadii == {Num(0), Num(52290), Num(52800), Num(100000)}

InitGeo ==
    /\ pc = "geo_call"
    /\ \E n \in 0..MaxGeoEvents :
          /\ heap \in [1..n -> GeoPool]
          /\ all_events = Ids(n)
    /\ created = heap
    /\ \E home \in GeoHomes :
          /\ home_lat = Num(home[1])
          /\ home_lon = Num(home[2])
    /\ max_distance \in GeoRadii
    /\ cities = <<>>
    /\ location = None
    /\ ci = 0
    /\ si = 0
    /\ calls = <<>>
    /\ ret = None

\* filtered = filter_by_distance(events, home_lat, home_lon, max_miles)
FilterOutcome(r) ==
    /\ heap' = r.heap
    /\ ret' = [raised |-> r.raised, value |-> r.value]
    /\ pc' = IF r.raised THEN "geo_raised" ELSE "geo_returned"

CallFilterByDistance ==
    /\ pc = "geo_call"
    /\ FilterOutcome(filter_by_distance(heap, all_events, home_lat, home_lon,
                                        max_distance))
    /\ UNCHANGED <<cities, max_distance, location, home_lat, home_lon, ci, si,
                   all_events, created, calls>>

NextGeo == CallFilterByDistance

SpecGeo == InitGeo /\ [][NextGeo]_vars

---------------------------------------------------------------------------
(* The two adapters: the records a scrape call can return.  What a page   *)
(* holds is not the pipeline's to decide: each call either raises or      *)
(* returns a list of records drawn from the shapes its parser can build.  *)

\* aggregator.py lines 32-35: the scrapers in their configured order
SCRAPERS == <<Str(S_openmic_us), Str(S_eventbrite)>>

\* openmic_us.py lines 45-49 and 72-81: the site configuration of a city.
\* The configuration knows the site of Austin (state TX); any other city
\* falls back to a guessed url and state "".
SiteState(city) ==
    IF lower(city.s) = lower(S_Austin) THEN Str(S_TX) ELSE Str(<<>>)

\* openmic_us.py lines 107 and 177-186: city.title(), the state of the site
\* configuration, the day of the listing, no url, no coordinates
OpenMicUSRecords(city, state) ==
    {OpenMicEvent(Str(S_Bar), Str(title(city.s)), SiteState(city),
                  Str(S_openmic_us), None, Str(S_Friday), None, None, None, None),
     OpenMicEvent(Str(S_Pub), Str(title(city.s)), SiteState(city),
                  Str(S_openmic_us), Str(S_AddrAlbany), Str(S_Monday),
                  Str(S_Phone1), None, None, None)}

\* eventbrite.py lines 146-156, 208-221 and 247-255: the city and state of
\* the call; lat and lon are whatever the page's JSON-LD holds under
\* "latitude" and "longitude": nothing, numbers, or strings; venue_name is
\* what it holds under the location's "name", which may be null
EventbriteRecords(city, state) ==
    {OpenMicEvent(Str(S_bAR), city, state, Str(S_eventbrite), Str(S_Addr2),
                  Str(S_Friday), None, Str(S_Url1),
                  Num(P_Near[1]), Num(P_Near[2])),
     OpenMicEvent(Str(S_Pub), city, state, Str(S_eventbrite), None, None,
                  None, Str(S_Url1), None, None),
     OpenMicEvent(Str(S_Pub), city, state, Str(S_eventbrite), None, None,
                  None, None, Str(S_Lat), Str(S_Lon)),
     OpenMicEvent(None, city, state, Str(S_eventbrite), None, Str(S_Friday),
                  None, Str(S_Url1), None, None)}

ScraperRecords(scraper, city, state) ==
    IF scraper = Str(S_openmic_us) THEN OpenMicUSRecords(city, state)
    ELSE EventbriteRecords(city, state)

\* the lists of at most MaxPerScrape different records from a set
ListsOf(S) ==
    UNION {{l \in [1..n -> S] : \A a, b \in 1..n : l[a] = l[b] => a = b} :
              n \in 0..MaxPerScrape}

---------------------------------------------------------------------------
(* aggregator.py, OpenMicAggregator.search *)

\* dict.get(key, default)
DictGet(d, key, default) == IF key \in DOMAIN d THEN d[key] ELSE default

\* the city_info dicts of a request: a city flagged for openmic.us, a city
\* that is not, a city given without its state (main.py lines 99-101), an
\* entry with an empty city name and an entry without the "city" key
CityInfos ==
    {[city |-> Str(S_Austin), state |-> Str(S_TX), openmic_us |-> TRUE],
     [city |-> Str(S_Albany), state |-> Str(S_GA)],
     [city |-> Str(S_Rome)],
     [city |-> Str(<<>>), state |-> Str(S_GA), openmic_us |-> TRUE],
     [state |-> Str(S_TX)]}

\* location: None or (city, state, lat, lon)
Locations ==
    {None,
     [t |-> "tuple", city |-> Str(S_Home), state |-> Str(S_GA),
      lat |-> Num(P_Bainbridge[1]), lon |-> Num(P_Bainbridge[2])],
     [t |-> "tuple", city |-> Str(S_Home), state |-> Str(<<>>),
      lat |-> Num(P_ZeroLat[1]), lon |-> Num(P_ZeroLat[2])]}

\* line 62: max_distance, 100 miles when the caller gives none (there is no
\* configuration file), in 1e-3 mile
DefaultMaxDistance == Num(100000)
MaxDistances == {DefaultMaxDistance, Num(52800)}

\* a search whose configuration holds a home_location (lines 68-71): the
\* home of a request without location is that one
InitConfigHome ==
    /\ pc = "loop"
    /\ cities \in UNION {[1..n -> CityInfos] : n \in 0..MaxCities}
    /\ max_distance \in MaxDistances
    /\ location \in Locations
    /\ home_lat = IF (location # None) THEN location.lat ELSE Num(P_Bainbridge[1])
    /\ home_lon = IF (location # None) THEN location.lon ELSE Num(P_Bainbridge[2])
    /\ ci = 1
    /\ si = 1
    /\ heap = <<>>
    /\ all_events = <<>>
    /\ created = <<>>
    /\ calls = <<>>
    /\ ret = None

\* lines 56-75: the state when the loop over the cities starts.  Without a
\* location the home comes from the configuration, which holds none.
Init ==
    /\ pc = "loop"
    /\ cities \in UNION {[1..n -> CityInfos] : n \in 0..MaxCities}
    /\ max_distance \in MaxDistances
    /\ location \in Locations
    /\ home_lat = IF (location # None) THEN location.lat ELSE None
    /\ home_lon = IF (location # None) THEN location.lon ELSE None
    /\ ci = 1
    /\ si = 1
    /\ heap = <<>>
    /\ all_events = <<>>
    /\ created = <<>>
    /\ calls = <<>>
    /\ ret = None

city_of(info) == DictGet(info, "city", Str(<<>>))
state_of(info) == DictGet(info, "state", Str(<<>>))

\* a search without the test of lines 87-89
NeverGated(scraper, info) == FALSE

\* lines 87-89: the scraper is passed over for this city
Gated(scraper, info) ==
    scraper = Str(S_openmic_us) /\ ~DictGet(info, "openmic_us", FALSE)

\* the loop moves on: the next scraper, or the next city
Advance ==
    IF si < Len(SCRAPERS)
    THEN ci' = ci /\ si' = si + 1
    ELSE ci' = ci + 1 /\ si' = 1

InLoop == pc = "loop" /\ ci <= Len(cities)

\* a search that leaves the loop at a city_info without a city name
SkipCityBreaks ==
    /\ InLoop
    /\ si = 1
    /\ ~Truthy(city_of(cities[ci]))
    /\ ci' = Len(cities) + 1
    /\ si' = 1
    /\ UNCHANGED <<pc, cities, max_distance, location, home_lat, home_lon,
                   heap, all_events, created, calls, ret>>

\* lines 82-83: a city_info without a city name is passed over
SkipCity ==
    /\ InLoop
    /\ si = 1
    /\ ~Truthy(city_of(cities[ci]))
    /\ ci' = ci + 1
    /\ si' = 1
    /\ UNCHANGED <<pc, cities, max_distance, location, home_lat, home_lon,
                   heap, all_events, created, calls, ret>>

\* lines 87-89
SkipScraper ==
    /\ InLoop
    /\ Truthy(city_of(cities[ci]))
    /\ Gated(SCRAPERS[si], cities[ci])
    /\ Advance
    /\ UNCHANGED <<pc, cities, max_distance, location, home_lat, home_lon,
                   heap, all_events, created, calls, ret>>

\* a search that puts the returned records in front of the collection
ScrapeReturnsPrepended ==
    /\ InLoop
    /\ Truthy(city_of(cities[ci]))
    /\ ~Gated(SCRAPERS[si], cities[ci])
    /\ LET city == city_of(cities[ci])
           state == state_of(cities[ci])
       IN  \E events \in ListsOf(ScraperRecords(SCRAPERS[si], city, state)) :
              LET ids == [k \in 1..Len(events) |-> Len(heap) + k]
              IN  /\ heap' = heap \o events
                  /\ created' = created \o events
                  /\ all_events' = ids \o all_events
                  /\ calls' = Append(calls, [scraper |-> SCRAPERS[si],
                                             city |-> city, state |-> state,
                                             raised |-> FALSE, events |-> ids])
    /\ Advance
    /\ UNCHANGED <<pc, cities, max_distance, location, home_lat, home_lon, ret>>

\* lines 92-93: scraper.scrape(city, state) returns and its records are
\* appended to all_events
ScrapeReturns ==
    /\ InLoop
    /\ Truthy(city_of(cities[ci]))
    /\ ~Gated(SCRAPERS[si], cities[ci])
    /\ LET city == city_of(cities[ci])
           state == state_of(cities[ci])
       IN  \E events \in ListsOf(ScraperRecords(SCRAPERS[si], city, state)) :
              LET ids == [k \in 1..Len(events) |-> Len(heap) + k]
              IN  /\ heap' = heap \o events
                  /\ created' = created \o events
                  /\ all_events' = all_events \o ids
                  /\ calls' = Append(calls, [scraper |-> SCRAPERS[si],
                                             city |-> city, state |-> state,
                                             raised |-> FALSE, events |-> ids])
    /\ Advance
    /\ UNCHANGED <<pc, cities, max_distance, location, home_lat, home_lon, ret>>

\* a search without the try of line 91: the exception leaves search
ScrapeRaisesUncaught ==
    /\ InLoop
    /\ Truthy(city_of(cities[ci]))
    /\ ~Gated(SCRAPERS[si], cities[ci])
    /\ calls' = Append(calls, [scraper |-> SCRAPERS[si],
                               city |-> city_of(cities[ci]),
                               state |-> state_of(cities[ci]),
                               raised |-> TRUE, events |-> <<>>])
    /\ pc' = "raised"
    /\ UNCHANGED <<cities, max_distance, location, home_lat, home_lon, ci, si,
                   heap, all_events, created, ret>>

\* a search that calls the scraper again for the same city after an
\* exception
ScrapeRaisesRetried ==
    /\ InLoop
    /\ Truthy(city_of(cities[ci]))
    /\ ~Gated(SCRAPERS[si], cities[ci])
    /\ calls' = Append(calls, [scraper |-> SCRAPERS[si],
                               city |-> city_of(cities[ci]),
                               state |-> state_of(cities[ci]),
                               raised |-> TRUE, events |-> <<>>])
    /\ UNCHANGED <<pc, cities, max_distance, location, home_lat, home_lon,
                   ci, si, heap, all_events, created, ret>>

\* lines 91-95: scraper.scrape(city, state) raises; the exception is caught
\* and printed
ScrapeRaises ==
    /\ InLoop
    /\ Truthy(city_of(cities[ci]))
    /\ ~Gated(SCRAPERS[si], cities[ci])
    /\ calls' = Append(calls, [scraper |-> SCRAPERS[si],
                               city |-> city_of(cities[ci]),
                               state |-> state_of(cities[ci]),
                               raised |-> TRUE, events |-> <<>>])
    /\ Advance
    /\ UNCHANGED <<pc, cities, max_distance, location, home_lat, home_lon,
                   heap, all_events, created, ret>>

\* a search that goes on to the next stage while cities are left
LoopExitAnyTime ==
    /\ pc = "loop"
    /\ pc' = "dedup"
    /\ UNCHANGED <<cities, max_distance, location, home_lat, home_lon, ci, si,
                   heap, all_events, created, calls, ret>>

\* line 78: the loop over the cities ends
LoopExit ==
    /\ pc = "loop"
    /\ ci > Len(cities)
    /\ pc' = "dedup"
    /\ UNCHANGED <<cities, max_distance, location, home_lat, home_lon, ci, si,
                   heap, all_events, created, calls, ret>>

\* a search that calls _deduplicate and goes on with the list it had
DedupAssignDropped(r) ==
    IF r.raised
    THEN pc' = "raised" /\ UNCHANGED all_events
    ELSE pc' = "check_home" /\ UNCHANGED all_events

\* line 98: all_events = self._deduplicate(all_events)
DedupAssign(r) ==
    IF r.raised
    THEN pc' = "raised" /\ UNCHANGED all_events
    ELSE pc' = "check_home" /\ all_events' = r.value

DedupStep ==
    /\ pc = "dedup"
    /\ DedupAssign(Deduplicate(heap, all_events))
    /\ UNCHANGED <<cities, max_distance, location, home_lat, home_lon, ci, si,
                   heap, created, calls, ret>>

\* line 101: if home_lat and home_lon
CheckHome ==
    /\ pc = "check_home"
    /\ pc' = IF Truthy(home_lat) /\ Truthy(home_lon) THEN "filter" ELSE "return"
    /\ UNCHANGED <<cities, max_distance, location, home_lat, home_lon, ci, si,
                   heap, all_events, created, calls, ret>>

\* line 102: all_events = filter_by_distance(all_events, home_lat, home_lon,
\* max_distance)
FilterAssign(r) ==
    /\ heap' = r.heap
    /\ IF r.raised
       THEN pc' = "raised" /\ UNCHANGED all_events
       ELSE pc' = "return" /\ all_events' = r.value

FilterStep ==
    /\ pc = "filter"
    /\ FilterAssign(filter_by_distance(heap, all_events, home_lat, home_lon,
                                       max_distance))
    /\ UNCHANGED <<cities, max_distance, location, home_lat, home_lon, ci, si,
                   created, calls, ret>>

\* a search that returns None when it found nothing
ReturnNoneIfEmpty ==
    /\ pc = "return"
    /\ ret' = IF all_events = <<>> THEN None ELSE Returned(all_events)
    /\ pc' = "done"
    /\ UNCHANGED <<cities, max_distance, location, home_lat, home_lon, ci, si,
                   heap, all_events, created, calls>>

\* line 106: return all_events
Return ==
    /\ pc = "return"
    /\ ret' = Returned(all_events)
    /\ pc' = "done"
    /\ UNCHANGED <<cities, max_distance, location, home_lat, home_lon, ci, si,
                   heap, all_events, created, calls>>

Next ==
    \/ SkipCity
    \/ SkipScraper
    \/ ScrapeReturns
    \/ ScrapeRaises
    \/ LoopExit
    \/ DedupStep
    \/ CheckHome
    \/ FilterStep
    \/ Return

Spec == Init /\ [][Next]_vars

---------------------------------------------------------------------------
(* Claims about _deduplicate (specification SpecDedup)                     *)

\* the DedupKey of the data model: (lowercased/trimmed venue_name,
\* day_of_week or empty string, lowercased/trimmed city)
KeyOf(e) ==
    <<strip(lower(e.venue_name.s)),
      IF e.day_of_week = None THEN Str(<<>>) ELSE e.day_of_week,
      strip(lower(e.city.s))>>

\* the position of object id x in a list of distinct ids (0: not in it)
PosIn(list, x) ==
    IF \E i \in 1..Len(list) : list[i] = x
    THEN CHOOSE i \in 1..Len(list) : list[i] = x
    ELSE 0

InList(list, x) == \E i \in 1..Len(list) : list[i] = x

DedupDone == pc = "dedup_returned"

\* C1: _deduplicate returns a subsequence of its input (the survivors in
\* their input order); of two input records with equal DedupKey the later
\* one never survives, and a record with no earlier equal-key record does.
C1_FirstOccurrenceOrder ==
    DedupDone =>
        LET out == ret.value
            in_ == all_events
        IN  /\ \A k \in 1..Len(out) : InList(in_, out[k])
            /\ \A k, l \in 1..Len(out) :
                  k < l => PosIn(in_, out[k]) < PosIn(in_, out[l])
            /\ \A i, j \in 1..Len(in_) :
                  (i < j /\ KeyOf(heap[in_[i]]) = KeyOf(heap[in_[j]]))
                      => ~InList(out, in_[j])
            /\ \A i \in 1..Len(in_) :
                  (\A k \in 1..(i-1) : KeyOf(heap[in_[k]]) # KeyOf(heap[in_[i]]))
                      => InList(out, in_[i])

\* C1 witness: an input e1, x, e2 with e1 and e2 of equal key and x of
\* another: the output is e1, x.
C1_Witness ==
    /\ DedupDone
    /\ Len(all_events) = 3
    /\ KeyOf(heap[1]) = KeyOf(heap[3])
    /\ KeyOf(heap[1]) # KeyOf(heap[2])
    /\ heap[1] # heap[3]
    /\ ret.value = <<1, 2>>

C13_NeverMerged ==
    DedupDone =>
        /\ \A k \in 1..Len(ret.value) :
              /\ InList(all_events, ret.value[k])
              /\ heap[ret.value[k]] = created[ret.value[k]]
        /\ heap = created

\* C13 witness: the first record has no lat/lon, a later record of the same
\* key has; the first comes back, still without.
C13_Witness ==
    /\ DedupDone
    /\ Len(all_events) = 2
    /\ KeyOf(created[1]) = KeyOf(created[2])
    /\ created[1].lat = None
    /\ created[2].lat # None
    /\ created[1].address # created[2].address
    /\ ret.value = <<1>>
    /\ heap[1].lat = None /\ heap[1].lon = None

\* C14: _deduplicate applied to its own output returns that output: the
\* same records in the same order.
C14_Idempotent ==
    pc = "dedup_again" => (~ret.raised /\ ret.value = all_events)

\* C14 witness: the first call dropped a record and kept two; the second
\* call returns the two as they are.
C14_Witness ==
    /\ pc = "dedup_again"
    /\ Len(created) = 3
    /\ KeyOf(created[1]) = KeyOf(created[3])
    /\ all_events = <<1, 2>>
    /\ ret = Returned(<<1, 2>>)

---------------------------------------------------------------------------
(* Claims about filter_by_distance (specification SpecGeo)                 *)

GeoDone == pc = "geo_returned"

\* the distance of the reference point from the coordinates an event holds
DistanceFromHome(e) == haversine_distance(home_lat, home_lon, e.lat, e.lon)

\* C5: a record whose coordinates resolved (its distance is known) is in
\* the output iff its distance from the reference point is <= max_miles.
C5_KeptIffWithin ==
    GeoDone =>
        \A i \in 1..Len(all_events) :
            LET e == heap[all_events[i]]
            IN  e.distance_miles # None =>
                    (InList(ret.value, all_events[i])
                        <=> DistanceFromHome(e) <= max_distance.n)

\* C5 witness: a record exactly at the radius is kept (distance 0, radius
\* 0) and a record beyond it is dropped.
C5_Witness ==
    /\ GeoDone
    /\ Len(all_events) = 2
    /\ max_distance = Num(0)
    /\ heap[1].distance_miles = Num(0)
    /\ heap[2].distance_miles # None
    /\ DistanceFromHome(heap[2]) > 0
    /\ ret.value = <<1>>

\* none of the three methods resolves the record as its adapter built it
Unresolvable(e) ==
    /\ e.lat = None \/ e.lon = None
    /\ get_city_coords(e.city, e.state) = None
    /\ estimate_coords_from_address(e.address) = None

\* C6: a record that no method resolves gets distance_miles None and is in
\* the output, for every max_miles.
C6_UnknownAlwaysKept ==
    GeoDone =>
        \A i \in 1..Len(all_events) :
            Unresolvable(created[all_events[i]]) =>
                /\ heap[all_events[i]].distance_miles = None
                /\ InList(ret.value, all_events[i])

\* C6 witness: radius 0, an unresolvable record and a resolved one beyond
\* the radius; only the unresolvable one comes out.
C6_Witness ==
    /\ GeoDone
    /\ Len(all_events) = 2
    /\ max_distance = Num(0)
    /\ Unresolvable(created[2])
    /\ created[2].address # None
    /\ heap[1].distance_miles # None
    /\ ret.value = <<2>>

\* C7: the output is ascending by distance_miles with the unknown
\* distances last, and records of equal distance_miles (the unknown ones
\* among them) keep their input order.
C7_SortedStable ==
    GeoDone =>
        \A k, l \in 1..Len(ret.value) :
            k < l =>
                LET a == heap[ret.value[k]].distance_miles
                    b == heap[ret.value[l]].distance_miles
                IN  /\ a = None => b = None
                    /\ (a # None /\ b # None) => a.n <= b.n
                    /\ a = b => PosIn(all_events, ret.value[k])
                                    < PosIn(all_events, ret.value[l])

\* C7 witness: an unknown-distance record ahead of a known-distance one in
\* the input comes after it in the output.
C7_Witness ==
    /\ GeoDone
    /\ Len(all_events) = 2
    /\ heap[1].distance_miles = None
    /\ heap[2].distance_miles # None
    /\ ret.value = <<2, 1>>

\* C8: a record that carries a numeric lat and lon keeps them, and its
\* distance is computed from exactly those coordinates.
C8_OwnCoordsUsed ==
    GeoDone =>
        \A i \in 1..Len(all_events) :
            LET e0 == created[all_events[i]]
                e == heap[all_events[i]]
            IN  (e0.lat.t = "num" /\ e0.lon.t = "num") =>
                    /\ e.lat = e0.lat
                    /\ e.lon = e0.lon
                    /\ e.distance_miles = Num(round1(DistanceFromHome(e0)))

\* C9: for a record without lat/lon the (city, state) lookup wins when it
\* hits, whatever the address; when it misses and the pair extracted from
\* the address hits, lat/lon are set to that table value.
C9_CityThenAddress ==
    GeoDone =>
        \A i \in 1..Len(all_events) :
            LET e0 == created[all_events[i]]
                e == heap[all_events[i]]
                byCity == get_city_coords(e0.city, e0.state)
                byAddress == estimate_coords_from_address(e0.address)
            IN  (e0.lat = None /\ e0.lon = None) =>
                    /\ byCity # None =>
                          (e.lat = byCity.lat /\ e.lon = byCity.lon)
                    /\ (byCity = None /\ byAddress # None) =>
                          (e.lat = byAddress.lat /\ e.lon = byAddress.lon)

\* C9 witness: two records without lat/lon whose address names Albany GA:
\* the one in Austin TX gets Austin's coordinates, the one in a city the
\* table does not know gets Albany's.
C9_Witness ==
    /\ GeoDone
    /\ Len(all_events) = 2
    /\ created[1].lat = None /\ created[1].lon = None
    /\ created[2].lat = None /\ created[2].lon = None
    /\ created[1].address = Str(S_AddrAlbany)
    /\ created[2].address = Str(S_AddrAlbany)
    /\ created[1].city = Str(S_Austin)
    /\ created[2].city = Str(S_Rome)
    /\ heap[1].lat = Num(302672) /\ heap[1].lon = Num(-977431)
    /\ heap[2].lat = Num(P_Albany[1]) /\ heap[2].lon = Num(P_Albany[2])

\* what filter_by_distance returns for the records as they were built, the
\* reference point of the call and the radius m
FilteredAt(m) ==
    filter_by_distance(created, all_events, home_lat, home_lon, m).value

\* C15: every record returned at the radius of the call is returned at
\* every greater radius, for the same records and reference point.
C15_MonotonicInRadius ==
    GeoDone =>
        \A m \in GeoRadii :
            max_distance.n <= m.n =>
                \A k \in 1..Len(ret.value) : InList(FilteredAt(m), ret.value[k])

\* C15 witness: at radius 0 one record of two is returned; at a greater
\* radius both are.
C15_Witness ==
    /\ GeoDone
    /\ max_distance = Num(0)
    /\ Len(all_events) = 2
    /\ Len(ret.value) = 1
    /\ heap[ret.value[1]].distance_miles # None
    /\ Len(FilteredAt(Num(100000))) = 2
    /\ InList(FilteredAt(Num(100000)), ret.value[1])

\* C18: the geo stage assigns only lat, lon and distance_miles, only to
\* the records of the list it is given, and never replaces coordinates a
\* record already carries.
C18_EnrichedOnce ==
    [][pc = "geo_call" =>
          \A id \in 1..Len(heap) :
              /\ heap[id] = [heap'[id] EXCEPT
                                !.lat = heap[id].lat,
                                !.lon = heap[id].lon,
                                !.distance_miles = heap[id].distance_miles]
              /\ (heap[id].lat # None /\ heap[id].lon # None) =>
                    (heap'[id].lat = heap[id].lat /\ heap'[id].lon = heap[id].lon)
              /\ ~InList(all_events, id) => heap'[id] = heap[id]]_vars

\* a string with a blank before and after
Padded(s) == <<" ">> \o s \o <<" ">>

\* the entry of the table for a pair in any spelling
TableEntry(city, state) == CityCoordsGet(<<strip(lower(city.s)), strip(lower(state.s))>>)

Located(e) == e.distance_miles # None /\ e.lat.t = "num" /\ e.lon.t = "num"

AtReference(id) ==
    \/ created[id].lat = home_lat /\ created[id].lon = home_lon
    \/ Located(heap[id]) /\ heap[id].lat = home_lat /\ heap[id].lon = home_lon

\* C25: the distance from (30.9038, -84.5755) to itself is 0 within 0.05
\* mile, and a record at the reference point, by the coordinates it
\* carries or by those resolved for it, gets distance_miles 0.0 and is
\* returned at every radius.
C25_SelfDistanceZero ==
    /\ haversine_distance(Num(P_Bainbridge[1]), Num(P_Bainbridge[2]),
                          Num(P_Bainbridge[1]), Num(P_Bainbridge[2])) <= 50
    /\ GeoDone =>
          \A id \in 1..Len(heap) :
              AtReference(id) =>
                 /\ heap[id].distance_miles = Num(0)
                 /\ InList(ret.value, id)

\* C26 as stated: every returned record whose distance_miles is known has
\* distance_miles <= max_miles, and every input record whose distance_miles
\* is known and <= max_miles is returned.
C26_WithinByStoredValue ==
    GeoDone =>
        \A i \in 1..Len(all_events) :
            heap[all_events[i]].distance_miles # None =>
                (InList(ret.value, all_events[i])
                    <=> heap[all_events[i]].distance_miles.n <= max_distance.n)

\* C26 as amended: a returned record whose distance_miles is known has
\* distance_miles <= max_miles rounded to one decimal, and every input
\* record whose distance_miles is known and below max_miles rounded to
\* one decimal is returned.
C26_WithinByRoundedRadius ==
    GeoDone =>
        \A i \in 1..Len(all_events) :
            heap[all_events[i]].distance_miles # None =>
                /\ InList(ret.value, all_events[i]) =>
                      heap[all_events[i]].distance_miles.n <= round1(max_distance.n)
                /\ heap[all_events[i]].distance_miles.n < round1(max_distance.n) =>
                      InList(ret.value, all_events[i])

\* C26 witness: at radius 52.29 a record 52.275 miles away is returned
\* with distance_miles 52.3, and a record with distance_miles 809.9 is
\* not.
C26_Witness ==
    /\ GeoDone
    /\ max_distance = Num(52290)
    /\ Len(all_events) = 2
    /\ ret.value = <<1>>
    /\ heap[1].distance_miles = Num(52300)
    /\ DistanceFromHome(heap[1]) = 52275
    /\ heap[2].distance_miles # None
    /\ heap[2].distance_miles.n > 52300

\* the record was built with a numeric lat and lon
CarriesCoords(e) == e.lat.t = "num" /\ e.lon.t = "num"

\* the record holds the distance of the reference point from the
\* coordinates it holds, rounded to one decimal
HoldsRoundedDistance(e) ==
    /\ CarriesCoords(e)
    /\ e.distance_miles = Num(round1(DistanceFromHome(e)))

\* C27: after the call every input record, returned or not, holds its
\* rounded distance: computed from its own coordinates if it was built
\* with them, from the resolved ones otherwise; a record that no method
\* resolves holds None.
C27_AllInputsUpdated ==
    GeoDone =>
        \A i \in 1..Len(all_events) :
            /\ CarriesCoords(created[all_events[i]]) =>
                  /\ heap[all_events[i]].lat = created[all_events[i]].lat
                  /\ heap[all_events[i]].lon = created[all_events[i]].lon
                  /\ HoldsRoundedDistance(heap[all_events[i]])
            /\ Unresolvable(created[all_events[i]]) =>
                  heap[all_events[i]].distance_miles = None
            /\ (~CarriesCoords(created[all_events[i]])
                   /\ ~Unresolvable(created[all_events[i]])) =>
                  HoldsRoundedDistance(heap[all_events[i]])

---------------------------------------------------------------------------
(* Claims about search (specification Spec)                                *)

\* the (city, scraper) index pairs of the request, cities outermost
AllPairs ==
    [k \in 1..(Len(cities) * Len(SCRAPERS)) |->
        <<((k - 1) \div Len(SCRAPERS)) + 1, ((k - 1) % Len(SCRAPERS)) + 1>>]

\* the pair is to be scraped: the city has a name and the scraper is not
\* passed over for it
Applicable(p) ==
    Truthy(city_of(cities[p[1]])) /\ ~Gated(SCRAPERS[p[2]], cities[p[1]])

ApplicablePairs == SelectSeq(AllPairs, Applicable)

\* the records the calls returned, in call order
RECURSIVE Collected(_)
Collected(log) ==
    IF log = <<>> THEN <<>>
    ELSE Collected(SubSeq(log, 1, Len(log) - 1)) \o log[Len(log)].events

\* C3: a scrape call that raises contributes no record and leaves the
\* accumulated records as they are, and every applicable (adapter, city)
\* pair of the request is still invoked, in order: when the loop is over,
\* the calls made are exactly the applicable pairs and the collection
\* handed to the next stage is exactly what the calls that returned gave.
C3_FailureIsolated ==
    /\ pc \in {"loop", "dedup"} =>
          /\ all_events = Collected(calls)
          /\ heap = created
          /\ \A k \in 1..Len(calls) : calls[k].raised => calls[k].events = <<>>
    /\ pc # "loop" =>
          /\ Len(calls) = Len(ApplicablePairs)
          /\ \A k \in 1..Len(calls) :
                /\ calls[k].scraper = SCRAPERS[ApplicablePairs[k][2]]
                /\ calls[k].city = city_of(cities[ApplicablePairs[k][1]])
                /\ calls[k].state = state_of(cities[ApplicablePairs[k][1]])

\* C3 witness: three calls, the second raises; the records of the first
\* and of the third are both in the collection when the loop ends.
C3_Witness ==
    /\ pc = "dedup"
    /\ Len(calls) = 3
    /\ ~calls[1].raised /\ calls[1].events = <<1>>
    /\ calls[2].raised
    /\ ~calls[3].raised /\ calls[3].events = <<2>>
    /\ all_events = <<1, 2>>

\* C4: search never raises: whatever the adapters return or raise, the
\* dedup and geo stages complete.
C4_NeverRaises == pc # "raised"

\* C10: after the dedup stage the collection goes to the distance filter
\* iff the request holds a reference point, whatever its latitude and
\* longitude.
C10_FilterIffReference ==
    [][pc = "check_home" => (pc' = "filter" <=> location # None)]_vars

\* the search has returned
SearchDone == pc = "done"

\* C11: a search without reference point returns the deduplicated
\* collection, in accumulation order, and no record has been touched:
\* lat, lon and distance_miles are as the adapters produced them.
C11_NoReferenceNoFilter ==
    (SearchDone /\ location = None) =>
        /\ ret = Deduplicate(created, Collected(calls))
        /\ heap = created
        /\ \A id \in 1..Len(heap) : heap[id].distance_miles = None

\* C11 witness: two records come back though one carries coordinates and
\* the other is in a city the table knows; neither got a distance.
C11_Witness ==
    /\ SearchDone
    /\ location = None
    /\ ret.value = <<1, 2>>
    /\ get_city_coords(created[1].city, created[1].state) # None
    /\ created[2].lat.t = "num"
    /\ heap[1].lat = None
    /\ max_distance = Num(52800)

\* the call that returned record id (0: none)
CallOf(id) ==
    IF \E k \in 1..Len(calls) : InList(calls[k].events, id)
    THEN CHOOSE k \in 1..Len(calls) : InList(calls[k].events, id)
    ELSE 0

\* pair p comes before pair q: an earlier city of the request, or the same
\* city and an earlier scraper of the configured list
PairBefore(p, q) == p[1] < q[1] \/ (p[1] = q[1] /\ p[2] < q[2])

\* C12: the working collection is the concatenation of the returned
\* lists: every returned record is in it once; of two records the one of
\* the earlier call comes first, and within one call the one the adapter
\* returned first; the calls follow the cities in request order and,
\* within a city, openmic.us before eventbrite.
C12_ConcatenationInOrder ==
    pc \in {"loop", "dedup"} =>
        /\ Len(all_events) = Len(created)
        /\ \A id \in 1..Len(created) : InList(all_events, id) /\ CallOf(id) # 0
        /\ \A i, j \in 1..Len(all_events) :
              i < j =>
                 LET k == CallOf(all_events[i])
                     l == CallOf(all_events[j])
                 IN  \/ k < l
                     \/ /\ k = l
                        /\ PosIn(calls[k].events, all_events[i])
                              < PosIn(calls[k].events, all_events[j])
        /\ \A k \in 1..Len(calls) :
              /\ calls[k].scraper = SCRAPERS[ApplicablePairs[k][2]]
              /\ calls[k].city = city_of(cities[ApplicablePairs[k][1]])
              /\ \A n \in 1..Len(calls[k].events) :
                    created[calls[k].events[n]].source = calls[k].scraper
        /\ \A k, l \in 1..Len(calls) :
              k < l => PairBefore(ApplicablePairs[k], ApplicablePairs[l])

\* C12 witness: openmic.us returns two different records for the first
\* city, eventbrite one for it and one for the second city; the collection
\* holds the four in that order.
C12_Witness ==
    /\ pc = "dedup"
    /\ Len(calls) = 3
    /\ calls[1].scraper = Str(S_openmic_us) /\ calls[1].events = <<1, 2>>
    /\ calls[2].scraper = Str(S_eventbrite) /\ calls[2].events = <<3>>
    /\ calls[3].scraper = Str(S_eventbrite) /\ calls[3].events = <<4>>
    /\ calls[3].city # calls[2].city
    /\ created[1] # created[2]
    /\ all_events = <<1, 2, 3, 4>>

\* C16: with an empty list of city targets no adapter is called, nothing
\* raises, and what search returns is the empty list, with or without a
\* reference point.
C16_EmptyTargets ==
    cities = <<>> =>
        /\ calls = <<>>
        /\ created = <<>>
        /\ all_events = <<>>
        /\ pc # "raised"
        /\ SearchDone => ret = Returned(<<>>)

\* C16 witness: no city, a reference point the filter accepts: search has
\* returned the empty list.
C16_Witness ==
    /\ cities = <<>>
    /\ SearchDone
    /\ location # None
    /\ Truthy(home_lat) /\ Truthy(home_lon)
    /\ ret = Returned(<<>>)

\* the city target has a name, so the loop processes it
HasName(info) == "city" \in DOMAIN info /\ info.city.s # <<>>

\* the city target is flagged for openmic.us
Flagged(info) == "openmic_us" \in DOMAIN info /\ info.openmic_us

FlaggedWithName(info) == HasName(info) /\ Flagged(info)

IsOpenMicUSCall(c) == c.scraper = Str(S_openmic_us)
IsEventbriteCall(c) == c.scraper = Str(S_eventbrite)

\* the calls of a log are for the targets of a list, one each, in order
CallsMatchTargets(log, targets) ==
    /\ Len(log) = Len(targets)
    /\ \A k \in 1..Len(log) :
          /\ log[k].city = targets[k].city
          /\ log[k].state = state_of(targets[k])

\* C17: when the loop is over, openmic.us has been called for exactly the
\* processed targets that are flagged for it, and eventbrite for every
\* processed target; the records any adapter returned are as it returned
\* them.
C17_Gating ==
    /\ pc # "loop" =>
          /\ CallsMatchTargets(SelectSeq(calls, IsOpenMicUSCall),
                               SelectSeq(cities, FlaggedWithName))
          /\ CallsMatchTargets(SelectSeq(calls, IsEventbriteCall),
                               SelectSeq(cities, HasName))
    /\ pc \in {"loop", "dedup"} => heap = created

\* C17 witness: a target that is not flagged and one that is: eventbrite
\* is called for the first, both adapters for the second, and eventbrite's
\* record for the first is in the collection.
C17_Witness ==
    /\ pc = "dedup"
    /\ Len(cities) = 2
    /\ ~Flagged(cities[1]) /\ HasName(cities[1])
    /\ Flagged(cities[2]) /\ HasName(cities[2])
    /\ Len(calls) = 3
    /\ IsEventbriteCall(calls[1]) /\ calls[1].events = <<1>>
    /\ IsOpenMicUSCall(calls[2]) /\ calls[2].events = <<2>>
    /\ IsEventbriteCall(calls[3])
    /\ heap[1] = created[1]

\* C19: while the loop of the fetches runs nothing is deduplicated or
\* enriched; the later stages start only when every applicable pair has
\* been fetched; the geo stage gets the deduplicated collection, and no
\* record is enriched before it.
C19_StagesAfterJoin ==
    /\ pc = "loop" =>
          /\ heap = created
          /\ all_events = Ids(Len(created))
    /\ pc # "loop" =>
          /\ ci > Len(cities)
          /\ Len(calls) = Len(ApplicablePairs)
    /\ pc \in {"check_home", "filter"} =>
          /\ heap = created
          /\ Returned(all_events) = Deduplicate(created, Ids(Len(created)))
    /\ heap # created => pc \in {"return", "done", "raised"}

\* C19 witness: three fetches gave three records; the dedup stage has
\* dropped one and the geo stage is about to run on the other two.
C19_Witness ==
    /\ pc = "filter"
    /\ Len(calls) = 3
    /\ Len(created) = 3
    /\ Len(all_events) = 2
    /\ heap = created

\* the step makes the call of the pair the loop is at, the next applicable
\* pair of the request, and the loop moves past that pair
CallsNextPair ==
    /\ Len(calls') = Len(calls) + 1
    /\ SubSeq(calls', 1, Len(calls)) = calls
    /\ Len(calls') <= Len(ApplicablePairs)
    /\ ApplicablePairs[Len(calls')] = <<ci, si>>
    /\ calls'[Len(calls')].scraper = SCRAPERS[si]
    /\ calls'[Len(calls')].city = city_of(cities[ci])
    /\ PairBefore(<<ci, si>>, <<ci', si'>>)

\* C20: a step makes at most one scrape call, which has returned or raised
\* when the step ends; the call is for the next applicable pair, after it
\* the loop is past that pair whether the call returned or raised, and the
\* loop ends only when every applicable pair has had its call.
C20_OncePerPairInTurn ==
    [][/\ calls' # calls => (pc = "loop" /\ CallsNextPair)
       /\ (pc = "loop" /\ pc' # "loop") => Len(calls) = Len(ApplicablePairs)]_vars

\* C20 witness: the three calls of a request have all raised, each was
\* made once, and search has returned the empty list.
C20_Witness ==
    /\ SearchDone
    /\ Len(ApplicablePairs) = 3
    /\ Len(calls) = 3
    /\ \A k \in 1..3 : calls[k].raised
    /\ calls[1].scraper # calls[2].scraper
    /\ calls[2].city # calls[3].city
    /\ ret = Returned(<<>>)

\* a string that is not empty
Populated(v) == v.t = "str" /\ v.s # <<>>

\* C21: every record search returns has venue_name, city, state and source
\* populated.
C21_RequiredFieldsPopulated ==
    SearchDone =>
        \A k \in 1..Len(ret.value) :
            /\ Populated(heap[ret.value[k]].venue_name)
            /\ Populated(heap[ret.value[k]].city)
            /\ Populated(heap[ret.value[k]].state)
            /\ Populated(heap[ret.value[k]].source)

\* C22: no scrape call of a search raises: every call of the log has
\* returned a list.
C22_AdaptersNeverRaise ==
    \A k \in 1..Len(calls) : ~calls[k].raised

\* the distance stage has run and search has returned
FilteredDone == SearchDone /\ Truthy(home_lat) /\ Truthy(home_lon)

\* the first record accumulated with the key of record id
FirstOfKey(id) ==
    CHOOSE f \in 1..Len(created) :
        /\ KeyOf(created[f]) = KeyOf(created[id])
        /\ \A g \in 1..(f - 1) : KeyOf(created[g]) # KeyOf(created[id])

\* the record passes the filter: its distance is unknown or within the
\* radius
PassesFilter(e) ==
    e.distance_miles = None \/ DistanceFromHome(e) <= max_distance.n

\* C28: when search has run the distance stage, the result holds a record
\* of a key iff the first record accumulated with that key passes the
\* filter, and the record it holds is that first record: a later record of
\* the key is never in the result.
C28_FirstRecordDecidesKey ==
    FilteredDone =>
        \A id \in 1..Len(created) :
            /\ InList(ret.value, id) => FirstOfKey(id) = id
            /\ (\E k \in 1..Len(ret.value) :
                    KeyOf(created[ret.value[k]]) = KeyOf(created[id]))
                 <=> PassesFilter(heap[FirstOfKey(id)])
            /\ FirstOfKey(id) # id => heap[id] = created[id]

\* C28 witness: the first record of a key resolves to a city beyond the
\* radius, a later record of the key carries coordinates within it; the
\* result holds neither.
C28_Witness ==
    /\ FilteredDone
    /\ Len(created) = 2
    /\ KeyOf(created[1]) = KeyOf(created[2])
    /\ created[1].lat = None
    /\ CarriesCoords(created[2])
    /\ DistanceFromHome(created[2]) <= max_distance.n
    /\ ~PassesFilter(heap[1])
    /\ ret = Returned(<<>>)

\* C29: what search returns holds only records that a scrape call of the
\* run returned, each once, and no two of one DedupKey, with and without
\* reference point.
C29_ResultFromCallsOnePerKey ==
    SearchDone =>
        /\ \A k \in 1..Len(ret.value) :
              /\ ret.value[k] \in 1..Len(created)
              /\ CallOf(ret.value[k]) # 0
              /\ ~calls[CallOf(ret.value[k])].raised
              /\ heap[ret.value[k]].source = calls[CallOf(ret.value[k])].scraper
        /\ \A k, l \in 1..Len(ret.value) :
              k # l =>
                 /\ ret.value[k] # ret.value[l]
                 /\ KeyOf(heap[ret.value[k]]) # KeyOf(heap[ret.value[l]])

\* C29 witness: three records were returned by the calls, two of one key;
\* with a reference point, the result holds two records.
C29_Witness ==
    /\ FilteredDone
    /\ Len(created) = 3
    /\ KeyOf(created[1]) = KeyOf(created[3])
    /\ Len(ret.value) = 2
    /\ InList(ret.value, 1) /\ InList(ret.value, 2)

\* C30: at a city target without a city name (empty, or the key missing)
\* the loop goes to the next target and nothing else changes: no call, no
\* record, no exception; no call is ever made for an empty name, and when
\* the loop ends every target with a name has had its eventbrite call.
C30_NamelessTargetSkipped ==
    [][/\ (pc = "loop" /\ ci <= Len(cities) /\ ~HasName(cities[ci])) =>
             /\ pc' = "loop"
             /\ ci' = ci + 1
             /\ calls' = calls
             /\ all_events' = all_events
             /\ heap' = heap
       /\ \A k \in 1..Len(calls') : calls'[k].city.s # <<>>
       /\ (pc = "loop" /\ pc' # "loop") =>
             \A c \in 1..Len(cities) :
                 HasName(cities[c]) =>
                    \E k \in 1..Len(calls) :
                       /\ IsEventbriteCall(calls[k])
                       /\ calls[k].city = cities[c].city]_vars

\* C30 witness: the first target has no "city" key, the second has a
\* name: one call was made, for the second, and its record is in the
\* collection.
C30_Witness ==
    /\ pc = "dedup"
    /\ Len(cities) = 2
    /\ "city" \notin DOMAIN cities[1]
    /\ HasName(cities[2])
    /\ Len(calls) = 1
    /\ calls[1].city = cities[2].city
    /\ calls[1].events = <<1>>
    /\ all_events = <<1>>

=============================================================================
